---- MODULE Spec2Model ----
(***************************************************************************)
(* Model of the citymapper client (src/citymapper/__init__.py): the        *)
(* coordinate normaliser, the transit parameter builder, the URL builder   *)
(* and the counting, throttling dispatcher.                                *)
(*                                                                         *)
(* Python values are modelled as records [type, keys, items]: a dict has   *)
(* keys[i] mapped to items[i]; a list, tuple or set has its elements in    *)
(* items; every other type has neither.  An element is [num, val]: a       *)
(* number is held as its value in millionths, which is the precision       *)
(* "{0:f}" keeps, and a non-numeric element has num = FALSE.  An optional  *)
(* argument is a sequence: <<>> for None, <<s>> for the string s.          *)
(***************************************************************************)
EXTENDS Integers, Sequences, FiniteSets, TLC

VARIABLES
    key,             \* self.key
    limit,           \* self.limit
    api_calls,       \* self.api_calls
    rate,            \* self.rate
    last_call_time,  \* self.last_call_time
    limit_arg,       \* the limit argument the constructor was given (<<>>: none)
    clock,           \* what time.time() returns, in seconds
    net_calls,       \* number of requests.get calls performed so far
    net_start,       \* clock value at which the latest requests.get started
    net_query,       \* the URL the latest requests.get was given
    dispatches,      \* number of _request calls made so far
    refusals,        \* number of _request calls that raised StopIteration
    result,          \* how the latest operation ended: "ok" or the exception
    events,          \* the steps the latest operation performed, in order
    input,           \* argument of the pure function under check
    output           \* its result

vars == <<key, limit, api_calls, rate, last_call_time, limit_arg, clock,
          net_calls, net_start, net_query, dispatches, refusals, result,
          events, input, output>>

client == <<key, limit, api_calls, rate, last_call_time>>
network == <<net_calls, net_start, net_query>>

----------------------------------------------------------------------------
(* Bounds of the model *)

Epoch == 7          \* the clock's reading when the client is constructed:
                    \* like any real reading, more than 60/rate seconds
                    \* after time 0, the initial last_call_time
MaxTime == 22       \* the clock runs from Epoch to MaxTime
MaxOver == 3        \* dispatches attempted beyond the ceiling
MaxTransit == 2     \* transit calls in the transit specification

----------------------------------------------------------------------------
(* Python values *)

None == <<>>
Some(s) == <<s>>

\* Python truthiness of an optional string: None and "" are false
Truthy(o) == o # None /\ o[1] # ""

Num(v) == [num |-> TRUE, val |-> v]
NaN == [num |-> FALSE, val |-> 0]       \* an element that is not a number

PyDict(ks, vs) == [type |-> "dict", keys |-> ks, items |-> vs]
PyList(vs) == [type |-> "list", keys |-> <<>>, items |-> vs]
PyTuple(vs) == [type |-> "tuple", keys |-> <<>>, items |-> vs]
PySet(vs) == [type |-> "set", keys |-> <<>>, items |-> vs]
PyStr == [type |-> "str", keys |-> <<>>, items |-> <<>>]
PyUnicode == [type |-> "unicode", keys |-> <<>>, items |-> <<>>]
PyInt == [type |-> "int", keys |-> <<>>, items |-> <<>>]
PyNone == [type |-> "NoneType", keys |-> <<>>, items |-> <<>>]

HasKey(x, k) == \E i \in 1..Len(x.keys) : x.keys[i] = k
Lookup(x, k) == x.items[CHOOSE i \in 1..Len(x.keys) : x.keys[i] = k]

\* hasattr(x, attr) for the builtin types above
hasattr(x, attr) ==
    CASE attr = "strip" -> x.type \in {"str", "unicode"}
      [] attr = "__getitem__" -> x.type \in {"str", "unicode", "dict", "list", "tuple"}
      [] attr = "__iter__" -> x.type \in {"dict", "list", "tuple", "set"}
      [] OTHER -> FALSE

isinstance(x, t) == x.type = t

----------------------------------------------------------------------------
(* String helpers: a string under construction is a sequence of characters *)

Digit == <<"0", "1", "2", "3", "4", "5", "6", "7", "8", "9">>

RECURSIVE Digits(_)
Digits(n) == IF n < 10 THEN <<Digit[n + 1]>>
             ELSE Digits(n \div 10) \o <<Digit[(n % 10) + 1]>>

RECURSIVE Pad(_, _)
Pad(s, w) == IF Len(s) >= w THEN s ELSE Pad(<<"0">> \o s, w)

RECURSIVE rstrip(_, _)
rstrip(s, c) == IF s # <<>> /\ s[Len(s)] = c
                THEN rstrip(SubSeq(s, 1, Len(s) - 1), c) ELSE s

RECURSIVE Join(_, _)
Join(s, sep) == IF s = <<>> THEN ""
                ELSE IF Len(s) = 1 THEN s[1]
                ELSE s[1] \o sep \o Join(Tail(s), sep)

\* "{0:f}".format(v): sign, integer part, point, six decimals
Format_f(v) ==
    LET a == IF v < 0 THEN -v ELSE v
    IN  (IF v < 0 THEN <<"-">> ELSE <<>>)
        \o Digits(a \div 1000000) \o <<".">> \o Pad(Digits(a % 1000000), 6)

float2str(e) == Join(rstrip(rstrip(Format_f(e.val), "0"), "."), "")

----------------------------------------------------------------------------
(* islist and normalize_position *)

islist(x) ==
    IF isinstance(x, "dict") THEN FALSE
    ELSE IF isinstance(x, "str") THEN FALSE
    ELSE (~hasattr(x, "strip") /\ hasattr(x, "__getitem__"))
         \/ hasattr(x, "__iter__")

Raise(e) == [err |-> e, out |-> ""]
Return(s) == [err |-> "", out |-> s]

\* "{latitude},{longitude}".format(...) of two converted elements; the
\* conversion of an element that is not a number raises ValueError
Coords(lat, lng) ==
    IF ~lat.num \/ ~lng.num THEN Raise("ValueError")
    ELSE Return(float2str(lat) \o "," \o float2str(lng))

\* the list branch with the two indices exchanged
normalize_position_swapped(x) ==
    IF isinstance(x, "dict")
    THEN IF HasKey(x, "lat") /\ HasKey(x, "lng")
         THEN Coords(Lookup(x, "lat"), Lookup(x, "lng"))
         ELSE Raise("TypeError")
    ELSE IF islist(x)
    THEN IF ~hasattr(x, "__getitem__") THEN Raise("TypeError")
         ELSE IF Len(x.items) < 1 THEN Raise("IndexError")
         ELSE IF ~x.items[1].num THEN Raise("ValueError")
         ELSE IF Len(x.items) < 2 THEN Raise("IndexError")
         ELSE Coords(x.items[2], x.items[1])
    ELSE Raise("TypeError")

normalize_position(x) ==
    IF isinstance(x, "dict")
    THEN IF HasKey(x, "lat") /\ HasKey(x, "lng")
         THEN Coords(Lookup(x, "lat"), Lookup(x, "lng"))
         ELSE Raise("TypeError")
    ELSE IF islist(x)
    THEN \* x[0] of an object without __getitem__ (a set) raises TypeError;
         \* x[0], x[1] past the end raise IndexError
         IF ~hasattr(x, "__getitem__") THEN Raise("TypeError")
         ELSE IF Len(x.items) < 1 THEN Raise("IndexError")
         ELSE IF ~x.items[1].num THEN Raise("ValueError")
         ELSE IF Len(x.items) < 2 THEN Raise("IndexError")
         ELSE Coords(x.items[1], x.items[2])
    ELSE Raise("TypeError")

----------------------------------------------------------------------------
(* The client: construction *)

base_url == "https://developer.citymapper.com/"

\* the fields __init__ sets, given the key and the optional limit argument
__init__(k, lim) ==
    [key |-> k, limit |-> 1000, api_calls |-> 0, rate |-> 10,
     last_call_time |-> 0]

----------------------------------------------------------------------------
(* _transit: the parameters of a transit call *)

Failed(e) == [err |-> e, params |-> <<>>]
Built(p) == [err |-> "", params |-> p]

\* the coordinates added to the parameters p, or the normaliser's exception
WithCoords(p, origin, destination) ==
    LET s == normalize_position(origin)
        e == normalize_position(destination)
    IN  IF s.err # "" THEN Failed(s.err)
        ELSE IF e.err # "" THEN Failed(e.err)
        ELSE Built(p @@ ("startcoord" :> s.out) @@ ("endcoord" :> e.out))

\* any true time_type is accepted
transit_any_type(origin, destination, time, time_type) ==
    LET node == ("node" :> "api/1/traveltime/?")
    IN  IF Truthy(time)
        THEN IF Truthy(time_type)
             THEN WithCoords(node @@ ("time" :> time[1])
                                  @@ ("time_type" :> time_type[1]),
                             origin, destination)
             ELSE Failed("Exception")
        ELSE WithCoords(node, origin, destination)

_transit(origin, destination, time, time_type) ==
    LET node == ("node" :> "api/1/traveltime/?")
    IN  IF Truthy(time)
        THEN IF time_type = Some("arrival")
             THEN WithCoords(node @@ ("time" :> time[1])
                                  @@ ("time_type" :> time_type[1]),
                             origin, destination)
             ELSE IF Truthy(time_type)
             THEN Failed("Exception")     \* time_type must be: "arrival"
             ELSE Failed("Exception")     \* time_type must be provided
        ELSE WithCoords(node, origin, destination)

----------------------------------------------------------------------------
(* _make_url *)

\* the sequences that list every element of the set S once: the orders in
\* which a dict with keys S may be iterated
RECURSIVE Orders(_)
Orders(S) ==
    IF S = {} THEN {<<>>}
    ELSE UNION {{<<k>> \o o : o \in Orders(S \ {k})} : k \in S}

\* two of these orders: the order in which transit's dict is filled (the
\* iteration order of a dict that keeps insertion order) and its reverse
InsertionOrder(S) ==
    SelectSeq(<<"time", "time_type", "startcoord", "endcoord", "key">>,
              LAMBDA k : k \in S)

RECURSIVE Reverse(_)
Reverse(s) == IF s = <<>> THEN <<>> ELSE Reverse(Tail(s)) \o <<Head(s)>>

TransitOrders(S) == {InsertionOrder(S), Reverse(InsertionOrder(S))}

\* the dict after params.pop('node') and params['key'] = self.key
Keyed(k, params) ==
    [p \in (DOMAIN params \ {"node"}) \cup {"key"} |->
        IF p = "key" THEN k ELSE params[p]]

QueryString(q, order) ==
    Join([i \in 1..Len(order) |-> order[i] \o "=" \o q[order[i]]], "&")

\* the node entry is left among the parameters
make_url_keep_node(k, params, order) ==
    LET q == [p \in DOMAIN params \cup {"key"} |->
                 IF p = "key" THEN k ELSE params[p]]
    IN  base_url \o params["node"]
        \o QueryString(q, <<"node">> \o order)

\* k is self.key; order is the iteration order of the dict's entries
_make_url(k, params, order) ==
    base_url \o params["node"] \o QueryString(Keyed(k, params), order)

----------------------------------------------------------------------------
(* _request: the counting, throttling dispatcher *)

\* the ceiling test made after the counter is incremented
limit_passed(calls, lim) == calls > lim
limit_reached(calls, lim) == calls >= lim

\* the test that decides whether the dispatcher sleeps
throttled(delta_T, r) == delta_T > (60 \div r)

\* the durations the sleep may last: the one second of asyncio.sleep(1)
\* where asyncio can be imported, the delta_T seconds of time.sleep(delta_T)
\* where it cannot (the await statement is taken as the blocking sleep its
\* try/except intends)
Sleeps(delta_T) == {1, delta_T}

Refuse ==
    /\ refusals' = refusals + 1
    /\ result' = "StopIteration"
    /\ events' = <<"count", "raise">>
    /\ UNCHANGED <<last_call_time, clock, network>>

Perform(query) ==
    LET now == clock
        delta_T == now - last_call_time
    IN  /\ IF throttled(delta_T, rate)
           THEN /\ \E d \in Sleeps(delta_T) : clock' = now + d
                /\ events' = <<"count", "sleep", "stamp", "get">>
           ELSE /\ clock' = now
                /\ events' = <<"count", "stamp", "get">>
        /\ clock' <= MaxTime
        /\ last_call_time' = clock'
        /\ net_calls' = net_calls + 1
        /\ net_start' = clock'
        /\ net_query' = query
        /\ result' = "ok"
        /\ UNCHANGED refusals

\* the counter is set back to zero when the ceiling is met
request_resetting(query) ==
    /\ dispatches' = dispatches + 1
    /\ IF limit_reached(api_calls + 1, limit)
       THEN api_calls' = 0 /\ Refuse
       ELSE api_calls' = api_calls + 1 /\ Perform(query)
    /\ UNCHANGED <<key, limit, rate, limit_arg>>

_request(query) ==
    /\ dispatches' = dispatches + 1
    /\ api_calls' = api_calls + 1
    /\ IF limit_reached(api_calls + 1, limit) THEN Refuse ELSE Perform(query)
    /\ UNCHANGED <<key, limit, rate, limit_arg>>

----------------------------------------------------------------------------
(* transit *)

\* the call ends with the exception e before anything is dispatched
Surface(e) ==
    /\ result' = e
    /\ events' = <<"raise">>
    /\ UNCHANGED <<client, clock, network, dispatches, refusals, limit_arg>>

\* the dispatch is counted and made before the parameters are validated
transit_dispatch_first(origin, destination, time, time_type) ==
    LET p == _transit(origin, destination, time, time_type)
    IN  IF p.err # ""
        THEN /\ dispatches' = dispatches + 1
             /\ api_calls' = api_calls + 1
             /\ last_call_time' = clock
             /\ net_calls' = net_calls + 1
             /\ net_start' = clock
             /\ net_query' = base_url
             /\ result' = p.err
             /\ events' = <<"count", "stamp", "get", "raise">>
             /\ UNCHANGED <<key, limit, rate, limit_arg, clock, refusals>>
        ELSE \E order \in TransitOrders((DOMAIN p.params \ {"node"}) \cup {"key"}) :
                 _request(_make_url(key, p.params, order))

transit(origin, destination, time, time_type) ==
    LET p == _transit(origin, destination, time, time_type)
    IN  IF p.err # ""
        THEN Surface(p.err)
        ELSE \E order \in TransitOrders((DOMAIN p.params \ {"node"}) \cup {"key"}) :
                 _request(_make_url(key, p.params, order))

----------------------------------------------------------------------------
(* Inputs *)

Keys == {"123"}
LimitArgs == {None, Some(2)}
Queries == {"https://developer.citymapper.com/api/1/traveltime/?key=123"}

Times == {None, Some(""), Some("2014-11-06T19:00:02-0500")}
TimeTypes == {None, Some(""), Some("arrival"), Some("departure")}

\* 123, 124, 123.01, 1, 2, 0, -0.5, 100, 0.000001
Numbers == {123000000, 124000000, 123010000, 1000000, 2000000, 0, -500000,
            100000000, 1}

TransitPositions ==
    {PyList(<<Num(1000000), Num(2000000)>>),
     PyDict(<<"lat", "lng">>, <<Num(1000000), Num(3000000)>>),
     PyStr,
     PyList(<<Num(1000000)>>)}

\* the arguments of the transit calls of the transit specification
CallPositions ==
    {PyList(<<Num(1000000), Num(2000000)>>), PyStr, PyList(<<Num(1000000)>>)}
CallTimes == {None, Some("2014-11-06T19:00:02-0500")}
CallTimeTypes == {None, Some("arrival"), Some("departure")}

\* the shapes a caller may hand to normalize_position
Elements == {Num(v) : v \in Numbers} \cup {NaN}
Pairs == {<<a, b>> : a \in Elements, b \in Elements}
Shorter == {<<>>} \cup {<<a>> : a \in {Num(123000000), NaN}}
Longer == {<<Num(1000000), Num(2000000), e>> : e \in {Num(0), NaN}}

PositionInputs ==
    {PyDict(<<"lat", "lng">>, p) : p \in Pairs}
    \cup {PyDict(<<"lng", "lat", "name">>, <<Num(124000000), Num(123000000), NaN>>),
          PyDict(<<"lat">>, <<Num(123000000)>>),
          PyDict(<<"lng">>, <<Num(124000000)>>),
          PyDict(<<>>, <<>>)}
    \cup {PyList(p) : p \in Pairs \cup Shorter \cup Longer}
    \cup {PyTuple(p) : p \in Pairs \cup Shorter \cup Longer}
    \cup {PySet(p) : p \in Shorter \cup Longer}
    \cup {PySet(<<Num(123000000), Num(124000000)>>)}
    \cup {PyStr, PyUnicode, PyInt, PyNone}

\* parameter dicts that hold the node entry
Nodes == {"api/1/traveltime/?", "fake/node/?"}
ParamNames == {"startcoord", "endcoord", "key1", "key"}
ParamValues == {"1,2", "1,3"}

ParamDicts ==
    UNION {[{"node"} \cup S -> Nodes \cup ParamValues] : S \in SUBSET ParamNames}

UrlInputs ==
    {p \in ParamDicts :
        /\ p["node"] \in Nodes
        /\ \A k \in DOMAIN p \ {"node"} : p[k] \in ParamValues}

----------------------------------------------------------------------------
(* The dispatcher's specification: a client, the clock and its dispatches *)

ClientInit ==
    /\ \E k \in Keys :
         LET self == __init__(k, limit_arg)
         IN  /\ key = self.key
             /\ limit = self.limit
             /\ api_calls = self.api_calls
             /\ rate = self.rate
             /\ last_call_time = self.last_call_time
    /\ clock = Epoch
    /\ net_calls = 0
    /\ net_start = 0
    /\ net_query = ""
    /\ dispatches = 0
    /\ refusals = 0
    /\ result = ""
    /\ events = <<>>

Init ==
    /\ limit_arg \in LimitArgs
    /\ ClientInit
    /\ input = None
    /\ output = None

\* time passes between the calls
Tick ==
    /\ clock < MaxTime
    /\ clock' = clock + 1
    /\ UNCHANGED <<client, network, dispatches, refusals, limit_arg, result,
                   events, input, output>>

Request ==
    /\ api_calls < limit + MaxOver
    /\ \E q \in Queries : _request(q)
    /\ UNCHANGED <<input, output>>

Next == Tick \/ Request

Spec == Init /\ [][Next]_vars

----------------------------------------------------------------------------
(* The transit specification: a client, the clock and its transit calls *)

Transit ==
    /\ dispatches < MaxTransit
    /\ \E o \in CallPositions, d \in CallPositions,
          t \in CallTimes, tt \in CallTimeTypes :
          transit(o, d, t, tt)
    /\ UNCHANGED <<input, output>>

NextTransit == Tick \/ Transit

SpecTransit == Init /\ [][NextTransit]_vars

----------------------------------------------------------------------------
(* The specifications of the pure functions: the argument is drawn in the  *)
(* initial state and the function is applied to it once                    *)

PureInit(inputs) ==
    /\ limit_arg = None
    /\ ClientInit
    /\ input \in inputs
    /\ output = None

Apply(value) ==
    /\ output = None
    /\ output' = Some(value)
    /\ UNCHANGED <<client, network, clock, dispatches, refusals, limit_arg,
                   result, events, input>>

Normalize == Apply(normalize_position(input))

SpecNormalize == PureInit(PositionInputs) /\ [][Normalize]_vars

TransitInputs ==
    {<<o, d, t, tt>> : o \in TransitPositions, d \in TransitPositions,
                       t \in Times, tt \in TimeTypes}

BuildParams == Apply(_transit(input[1], input[2], input[3], input[4]))

SpecParams == PureInit(TransitInputs) /\ [][BuildParams]_vars

MakeUrl ==
    \E order \in Orders((DOMAIN input \ {"node"}) \cup {"key"}) :
        Apply(_make_url(key, input, order))

SpecUrl == PureInit(UrlInputs) /\ [][MakeUrl]_vars

----------------------------------------------------------------------------
(* Properties of the dispatcher, checked under Spec *)

\* C1: a client constructed with the ceiling 2 performs the network call in
\* its first two dispatches, and its third dispatch is refused with the
\* quota condition and performs no network call.
C1_ThirdDispatchRefused ==
    limit_arg = Some(2) =>
        /\ dispatches \in {1, 2} => (result = "ok" /\ net_calls = dispatches)
        /\ dispatches = 3 => (result = "StopIteration" /\ net_calls = 2)

\* C7: the ceiling the dispatcher enforces is the limit the constructor was
\* given, and 1000 when it was given none; the rate is 10 in both cases.
C7_CeilingIsLimitArgument ==
    /\ limit = (IF limit_arg = None THEN 1000 ELSE limit_arg[1])
    /\ rate = 10

\* C3: of two consecutive dispatches, the network call of the second starts
\* no earlier than 60/rate seconds after the last-call timestamp the first
\* recorded.
C3_SecondCallWaits ==
    [][(net_calls >= 1 /\ net_calls' = net_calls + 1)
          => net_start' >= last_call_time + (60 \div rate)]_vars

\* C9: a dispatch first adds one to the counter; if the counter then reaches
\* or exceeds the ceiling the dispatch raises the limit condition, performs
\* no network call and leaves the timestamp alone; otherwise it records the
\* current time as the timestamp and then performs the network call.
C9_DispatchSteps ==
    [][dispatches' = dispatches + 1 =>
          /\ api_calls' = api_calls + 1
          /\ events'[1] = "count"
          /\ IF api_calls' >= limit
             THEN /\ result' = "StopIteration"
                  /\ events' = <<"count", "raise">>
                  /\ net_calls' = net_calls
                  /\ last_call_time' = last_call_time
             ELSE /\ result' = "ok"
                  /\ SubSeq(events', Len(events') - 1, Len(events'))
                        = <<"stamp", "get">>
                  /\ last_call_time' = clock'
                  /\ net_calls' = net_calls + 1
                  /\ net_start' = last_call_time']_vars

\* a dispatch has just been refused at the ceiling, after limit - 1 dispatches
\* that each stamped the time and performed the network call
C9_Witness ==
    /\ api_calls = limit
    /\ refusals = 1
    /\ result = "StopIteration"
    /\ net_calls = limit - 1
    /\ last_call_time = net_start

\* C10: the counter never decreases and is never reset, so once a dispatch
\* has been refused every later dispatch is refused as well and no further
\* network call is performed.
C10_QuotaIsTerminal ==
    [][/\ api_calls' >= api_calls
       /\ refusals >= 1 =>
             /\ net_calls' = net_calls
             /\ dispatches' = dispatches + 1 =>
                   (result' = "StopIteration" /\ refusals' = refusals + 1)]_vars

\* a dispatch made after the first refusal has been refused too
C10_Witness ==
    /\ refusals = 2
    /\ dispatches = limit + 1
    /\ net_calls = limit - 1

----------------------------------------------------------------------------
(* Properties of transit, checked under SpecTransit *)

TransitErrors == {"Exception", "TypeError", "IndexError", "ValueError"}

\* C8: a transit call that ends with a configuration error or an invalid
\* input error performs no dispatch and no network call, and leaves the
\* counter, the last-call timestamp and the key as they were.
C8_FailedTransitChangesNothing ==
    [][result' \in TransitErrors =>
          /\ events' = <<"raise">>
          /\ UNCHANGED <<key, limit, api_calls, rate, last_call_time>>
          /\ UNCHANGED <<net_calls, net_start, net_query, dispatches>>]_vars

\* a transit call has failed on a client that had dispatched before
C8_Witness ==
    /\ result \in TransitErrors
    /\ events = <<"raise">>
    /\ api_calls = 1
    /\ net_calls = 1

----------------------------------------------------------------------------
(* Properties of _transit, checked under SpecParams *)

\* a time is supplied when the argument is a non-empty string
Supplied(o) == Truthy(o)

WellPlaced(in) ==
    normalize_position(in[1]).err = "" /\ normalize_position(in[2]).err = ""

\* C2: with a time and no time_type, a configuration error; with a time and
\* a non-empty time_type other than "arrival", a configuration error; with a
\* time and the time_type "arrival", success, the result holding both; with
\* no time, no configuration error whatever the time_type.
C2_TimeNeedsArrival ==
    output # None =>
        LET time == input[3]
            time_type == input[4]
            r == output[1]
        IN  /\ (Supplied(time) /\ ~Truthy(time_type)) => r.err = "Exception"
            /\ (Supplied(time) /\ Truthy(time_type)
                    /\ time_type # Some("arrival")) => r.err = "Exception"
            /\ (Supplied(time) /\ time_type = Some("arrival")) =>
                   /\ r.err # "Exception"
                   /\ WellPlaced(input) =>
                         /\ r.err = ""
                         /\ {"time", "time_type"} \subseteq DOMAIN r.params
                         /\ r.params["time"] = time[1]
                         /\ r.params["time_type"] = "arrival"
            /\ ~Supplied(time) =>
                   /\ r.err # "Exception"
                   /\ WellPlaced(input) =>
                         /\ r.err = ""
                         /\ DOMAIN r.params = {"node", "startcoord", "endcoord"}

\* a time with the time_type "arrival" has been accepted
C2_Witness ==
    /\ output # None
    /\ Supplied(input[3])
    /\ input[4] = Some("arrival")
    /\ output[1].err = ""
    /\ output[1].params["time_type"] = "arrival"

----------------------------------------------------------------------------
(* Properties of normalize_position, checked under SpecNormalize *)

IsKeyed(x) == x.type = "dict" /\ HasKey(x, "lat") /\ HasKey(x, "lng")
IsPair(x) ==
    /\ x.type \in {"list", "tuple"}
    /\ Len(x.items) >= 2
    /\ x.items[1].num /\ x.items[2].num

\* C4: a keyed position and the ordered pair of the same two numbers are
\* normalised to the same string "<lat>,<lng>"; 123 and 124 give "123,124".
C4_KeyedAndPairAgree ==
    output # None =>
        /\ (IsKeyed(input) /\ Lookup(input, "lat").num
                /\ Lookup(input, "lng").num) =>
               /\ output[1].err = ""
               /\ output[1] = normalize_position(
                      PyList(<<Lookup(input, "lat"), Lookup(input, "lng")>>))
        /\ (input.type = "list" /\ IsPair(input)) =>
               /\ output[1].err = ""
               /\ output[1] = normalize_position(
                      PyDict(<<"lat", "lng">>,
                             <<input.items[1], input.items[2]>>))
        /\ input = PyDict(<<"lat", "lng">>, <<Num(123000000), Num(124000000)>>)
               => output[1].out = "123,124"
        /\ input = PyList(<<Num(123010000), Num(124000000)>>)
               => output[1].out = "123.01,124"

\* the keyed position of the docstring has been normalised
C4_Witness ==
    /\ output # None
    /\ input = PyDict(<<"lat", "lng">>, <<Num(123000000), Num(124000000)>>)
    /\ output[1] = Return("123,124")

\* C5: every input that is neither a mapping holding both keys nor an
\* ordered sequence of at least two numbers is refused with a type error.
C5_MalformedRaisesTypeError ==
    (output # None /\ ~IsKeyed(input) /\ ~IsPair(input))
        => output[1].err = "TypeError"

----------------------------------------------------------------------------
(* Properties of _make_url, checked under SpecUrl *)

\* the entries the URL is to hold: the client's key and every parameter
\* supplied under another name than node and key
Entry(k) == k \o "=" \o (IF k = "key" THEN key ELSE input[k])
Expected(order) == Join([i \in 1..Len(order) |-> Entry(order[i])], "&")

\* C6: the URL is the base URL, the node value and the '&'-joined 'k=v'
\* entries: the client's key once, every other supplied parameter once,
\* and no entry for node.
C6_UrlEntries ==
    output # None =>
        /\ \E order \in Orders((DOMAIN input \ {"node", "key"}) \cup {"key"}) :
               output[1] = base_url \o input["node"] \o Expected(order)
        /\ (input = ("node" :> "api/1/traveltime/?" @@ "startcoord" :> "1,2"
                       @@ "endcoord" :> "1,3") /\ key = "123") =>
               output[1] \in
                 {"https://developer.citymapper.com/api/1/traveltime/?startcoord=1,2&endcoord=1,3&key=123",
                  "https://developer.citymapper.com/api/1/traveltime/?startcoord=1,2&key=123&endcoord=1,3",
                  "https://developer.citymapper.com/api/1/traveltime/?endcoord=1,3&startcoord=1,2&key=123",
                  "https://developer.citymapper.com/api/1/traveltime/?endcoord=1,3&key=123&startcoord=1,2",
                  "https://developer.citymapper.com/api/1/traveltime/?key=123&startcoord=1,2&endcoord=1,3",
                  "https://developer.citymapper.com/api/1/traveltime/?key=123&endcoord=1,3&startcoord=1,2"}

\* the URL of the travel-time scenario has been built
C6_Witness ==
    /\ output # None
    /\ input = ("node" :> "api/1/traveltime/?" @@ "startcoord" :> "1,2"
                   @@ "endcoord" :> "1,3")
    /\ output[1] = "https://developer.citymapper.com/api/1/traveltime/?endcoord=1,3&key=123&startcoord=1,2"

====
